---- MODULE Spec2Model ----
(***************************************************************************)
(* Model of pkg/storage/stats.go: the single-match reducer                 *)
(* StatsFromGameAndEvents, which folds a match record, its raw events and  *)
(* the per-user outcome records into a GameStatistics value.               *)
(*                                                                         *)
(* Times are Unix seconds and durations are counted in seconds (the code   *)
(* multiplies the second count by time.Second).  Payloads are the JSON     *)
(* strings the capture layer writes; Unmarshal tabulates encoding/json on  *)
(* the payload strings the model uses.                                     *)
(***************************************************************************)
EXTENDS Integers, Sequences, FiniteSets, TLC

VARIABLES pgame, events, users, stats, exiledPlayerNames, idx, pc,
          peer, games, facts, gameEvents, call, ret

\* one call of StatsFromGameAndEvents: its arguments, its locals, its position
reducerVars == <<pgame, events, users, stats, exiledPlayerNames, idx, pc>>

\* the store's games, users_games and game_events tables, the last operation
\* on the store and what it returned
rankVars == <<games, facts, gameEvents, call, ret>>

\* a second call of StatsFromGameAndEvents running at the same time, and the store
otherVars == <<peer, games, facts, gameEvents, call, ret>>

vars == <<pgame, events, users, stats, exiledPlayerNames, idx, pc,
          peer, games, facts, gameEvents, call, ret>>

(***************************************************************************)
(* Bounds of the model.                                                    *)
(***************************************************************************)
MaxEvents == 3
MaxUsers == 2
MaxWinCode == 8

(***************************************************************************)
(* Constants of the program.                                               *)
(***************************************************************************)
\* SimpleEventType
Tasks == 0
Discuss == 1
PlayerDeath == 2
PlayerDisconnect == 3
PlayerExiled == 4

\* game.GameResult values the reducer names
ImpostorByVote == 2
ImpostorByKill == 3
ImpostorBySabotage == 4
ImpostorDisconnect == 5
Unknown == 7

\* game.GameRole
CrewmateRole == 0
ImposterRole == 1

\* game.PlayerAction values the reducer names
DIED == 2
DISCONNECTED == 5
EXILED == 6

\* capture event kinds
CaptureConnection == 0
CaptureState == 2
CapturePlayer == 3

\* game phases, printed with %d
TasksCode == "1"
DiscussCode == "2"

\* time.Time{}, the zero time (year 1, outside the range of Unix seconds the
\* model uses)
ZeroTime == [zero |-> TRUE]

\* time.Unix(sec, 0)
TimeUnix(sec) == [unix |-> sec]

\* a nil *PostgresGame
Nil == [nil |-> TRUE]

(***************************************************************************)
(* Payload strings.                                                        *)
(***************************************************************************)
DiedA == "{\"Action\":2,\"Name\":\"A\"}"
ExiledA == "{\"Action\":6,\"Name\":\"A\"}"
ExiledB == "{\"Action\":6,\"Name\":\"B\"}"
DisconnectedA == "{\"Action\":5,\"Name\":\"A\"}"
JoinedA == "{\"Action\":0,\"Name\":\"A\"}"
Truncated == "{\"Action\":"
LobbyCode == "0"

Player(action, name) == [err |-> FALSE, Action |-> action, Name |-> name]

\* json.Unmarshal([]byte(payload), &player) on the payloads above: an object
\* fills Action and Name; a bare number, the empty string and a truncated
\* object are errors.
Unmarshal(payload) ==
    CASE payload = DiedA -> Player(DIED, "A")
      [] payload = ExiledA -> Player(EXILED, "A")
      [] payload = ExiledB -> Player(EXILED, "B")
      [] payload = DisconnectedA -> Player(DISCONNECTED, "A")
      [] payload = JoinedA -> Player(0, "A")
      [] OTHER -> [err |-> TRUE, Action |-> 0, Name |-> ""]

(***************************************************************************)
(* Pieces of StatsFromGameAndEvents.                                       *)
(***************************************************************************)
NewStats ==
    [GameStartTime |-> ZeroTime, GameEndTime |-> ZeroTime, GameDuration |-> 0,
     WinType |-> Unknown, WinRole |-> CrewmateRole,
     WinPlayerNames |-> <<>>, LosePlayerNames |-> <<>>,
     NumMeetings |-> 0, NumDeaths |-> 0, NumVotedOff |-> 0,
     NumDisconnects |-> 0, Events |-> <<>>]

\* if pgame != nil { ... }
WithGame(st, g) ==
    IF g # Nil
    THEN [st EXCEPT !.GameStartTime = TimeUnix(g.StartTime),
                    !.GameEndTime = TimeUnix(g.EndTime),
                    !.GameDuration = g.EndTime - g.StartTime,
                    !.WinType = g.WinType]
    ELSE st

\* faulty variant: the kill victory is left out of the Imposter test
WinRoleOfNoKill(winType) ==
    IF \/ winType = ImpostorDisconnect
       \/ winType = ImpostorBySabotage
       \/ winType = ImpostorByVote
    THEN ImposterRole
    ELSE CrewmateRole

WinRoleOf(winType) ==
    IF \/ winType = ImpostorDisconnect
       \/ winType = ImpostorBySabotage
       \/ winType = ImpostorByVote
       \/ winType = ImpostorByKill
    THEN ImposterRole
    ELSE CrewmateRole

RECURSIVE RangeUsersWinFirst(_, _, _)

\* faulty variant: a winner is put in front of the winner list
RangeUsersWinFirst(st, us, k) ==
    IF k > Len(us) THEN st
    ELSE IF us[k].PlayerWon
         THEN RangeUsersWinFirst([st EXCEPT !.WinPlayerNames = <<us[k].PlayerName>> \o @], us, k + 1)
         ELSE RangeUsersWinFirst([st EXCEPT !.LosePlayerNames = Append(@, us[k].PlayerName)], us, k + 1)

RECURSIVE RangeUsers(_, _, _)
\* for _, v := range users { ... }, from element k on
RangeUsers(st, us, k) ==
    IF k > Len(us) THEN st
    ELSE IF us[k].PlayerWon
         THEN RangeUsers([st EXCEPT !.WinPlayerNames = Append(@, us[k].PlayerName)], us, k + 1)
         ELSE RangeUsers([st EXCEPT !.LosePlayerNames = Append(@, us[k].PlayerName)], us, k + 1)

\* faulty variant: only the empty stream is too short
TooShortEmpty(evs) == Len(evs) < 1

TooShort(evs) == Len(evs) < 2

\* faulty variant: the absolute event time is used
OffsetAbsolute(v, g) == v.EventTime

\* v.EventTime - pgame.StartTime, in seconds
Offset(v, g) == v.EventTime - g.StartTime

\* faulty variant: the entry is put in front of the timeline
PrependEvent(st, type, offset, data) ==
    [st EXCEPT !.Events = <<[EventType |-> type,
                             EventTimeOffset |-> offset,
                             Data |-> data]>> \o @]

AppendEvent(st, type, offset, data) ==
    [st EXCEPT !.Events = Append(@, [EventType |-> type,
                                     EventTimeOffset |-> offset,
                                     Data |-> data])]

\* the isExiled loop
IsExiled(names, name) == \E k \in 1..Len(names) : names[k] = name

\* case player.Action == game.DIED, without the append
CountDeath(st) == [st EXCEPT !.NumDeaths = @ + 1]

\* ToDiscordEmbed: the "Killed" figure of the death field
Killed(st) == st.NumDeaths - st.NumVotedOff

\* NumGamesWonAsRoleOnServer, role == game.CrewmateRole: the win_type filter
CrewmateWinFilter(winType) == winType = 0 \/ winType = 1 \/ winType = 6

\* NumGamesWonAsRoleOnServer, any other role: the win_type filter
ImposterWinFilter(winType) ==
    winType = 2 \/ winType = 3 \/ winType = 4 \/ winType = 5

\* the games NumGamesWonAsRoleOnServer counts for a role
WonAsRoleFilter(role, winType) ==
    IF role = CrewmateRole THEN CrewmateWinFilter(winType) ELSE ImposterWinFilter(winType)

(***************************************************************************)
(* The ranking and count queries over users_games and game_events.         *)
(* A users_games row is [game_id, user_id, guild_id, player_role,          *)
(* player_won]; a game_events row is [game_id, user_id, event_time,        *)
(* action], action being payload ->> 'Action'.  A rate is kept as the      *)
(* fraction num/den of the decimal the query computes.                     *)
(***************************************************************************)
\* ... ::decimal / COUNT(*)) * 100
Rate(count, total) == [num |-> count * 100, den |-> total]

RateGreater(a, b) == a.num * b.den > b.num * a.den

RateEqual(a, b) == a.num * b.den = b.num * a.den

\* FROM users_games INNER JOIN users_games uG ON users_games.game_id =
\* uG.game_id AND users_games.user_id <> uG.user_id WHERE users_games.guild_id
\* = $1 AND users_games.player_role = $2 AND uG.player_role = $2
TeammateJoin(guildID, role) ==
    {j \in facts \X facts :
        /\ j[1].game_id = j[2].game_id
        /\ j[1].user_id # j[2].user_id
        /\ j[1].guild_id = guildID
        /\ j[1].player_role = role
        /\ j[2].player_role = role}

\* GROUP BY users_games.user_id, uG.user_id: the keys of the groups
GroupKeys(joined) == {<<j[1].user_id, j[2].user_id>> : j \in joined}

Group(joined, key) == {j \in joined : j[1].user_id = key[1] /\ j[2].user_id = key[2]}

\* faulty variant: the threshold is exclusive
HavingAbove(total, leaderboardMin) == total > leaderboardMin

\* HAVING COUNT(users_games.player_won) >= $4
Having(total, leaderboardMin) == total >= leaderboardMin

\* CASE WHEN users_games.user_id > uG.user_id THEN users_games.user_id ELSE uG.user_id END
GreaterId(a, b) == IF a > b THEN a ELSE b

\* CASE WHEN users_games.user_id > uG.user_id THEN uG.user_id ELSE users_games.user_id END
LesserId(a, b) == IF a > b THEN b ELSE a

\* SELECT DISTINCT ... of the teammate queries: one row per group that passes
\* HAVING, duplicates of a whole row merged; count is win (player_won = TRUE)
\* or loose (player_won = FALSE), forServer orders the two ids of the pair
TeammateRows(joined, won, leaderboardMin, forServer) ==
    {LET g == Group(joined, key)
         total == Cardinality(g)
         count == Cardinality({j \in g : j[1].player_won = won})
     IN [user_id |-> IF forServer THEN GreaterId(key[1], key[2]) ELSE key[1],
         teammate_id |-> IF forServer THEN LesserId(key[1], key[2]) ELSE key[2],
         total |-> total,
         count |-> count,
         rate |-> Rate(count, total)] :
       key \in {k \in GroupKeys(joined) :
                   Having(Cardinality(Group(joined, k)), leaderboardMin)}}

\* ORDER BY win_rate DESC, win DESC, total DESC: a is placed before b
TeammateBefore(a, b) ==
    \/ RateGreater(a.rate, b.rate)
    \/ RateEqual(a.rate, b.rate) /\ a.count > b.count
    \/ RateEqual(a.rate, b.rate) /\ a.count = b.count /\ a.total > b.total

\* the pairs <<a, b>> of rows the ORDER BY of the teammate queries places a before b
TeammateOrder(S) == {p \in S \X S : TeammateBefore(p[1], p[2])}

\* the sequences in which the store may return the rows under an ORDER BY,
\* before being the pairs it orders: rows that the keys do not separate come
\* in any order
Orderings(S, before) ==
    {f \in [1..Cardinality(S) -> S] :
        /\ \A i, k \in 1..Cardinality(S) : i # k => f[i] # f[k]
        /\ \A i, k \in 1..Cardinality(S) : i < k => <<f[k], f[i]>> \notin before}

\* LIMIT n
Limit(seq, n) == SubSeq(seq, 1, IF Len(seq) < n THEN Len(seq) ELSE n)

\* SELECT game_events.user_id FROM game_events WHERE game_events.game_id =
\* users_games.game_id AND payload ->> 'Action' = $1 ORDER BY event_time FETCH
\* FIRST 1 ROW ONLY: the users the sub-select yields (none or one)
FirstTarget(gameID, action) ==
    LET es == {e \in gameEvents : e.game_id = gameID /\ e.action = action}
    IN {e.user_id : e \in {x \in es : \A y \in es : x.event_time <= y.event_time}}

\* SELECT COUNT(*) AS total FROM users_games WHERE users_games.user_id =
\* ge.user_id AND users_games.guild_id = $2 AND player_role = 0
TotalGame(userID, guildID) ==
    Cardinality({f \in facts : f.user_id = userID /\ f.guild_id = guildID /\ f.player_role = 0})

\* the threshold written in UserMostFrequentFirstTargetForServer: total > 3
FixedMinTotal == 3

\* the users_games rows that pass WHERE users_games.guild_id = $2 AND
\* users_games.user_id = ge.user_id
FirstTargetMatches(guildID, action) ==
    {f \in facts : f.guild_id = guildID /\ f.user_id \in FirstTarget(f.game_id, action)}

\* GROUP BY users_games.user_id, total over the given rows
FirstTargetRows(matches, guildID) ==
    {LET n == Cardinality({f \in matches : f.user_id = u})
     IN [total_death |-> n, user_id |-> u, total |-> TotalGame(u, guildID),
         death_rate |-> Rate(n, TotalGame(u, guildID))] :
       u \in {f.user_id : f \in matches}}

\* ORDER BY death_rate DESC, total_death DESC
DeathRateBefore(a, b) ==
    \/ RateGreater(a.death_rate, b.death_rate)
    \/ RateEqual(a.death_rate, b.death_rate) /\ a.total_death > b.total_death

\* ORDER BY total_death DESC
TotalDeathBefore(a, b) == a.total_death > b.total_death

DeathRateOrder(S) == {p \in S \X S : DeathRateBefore(p[1], p[2])}

TotalDeathOrder(S) == {p \in S \X S : TotalDeathBefore(p[1], p[2])}

(***************************************************************************)
(* Inputs.                                                                 *)
(***************************************************************************)
Names == {"A", "B"}
BaseTime == 10
Times == {BaseTime, BaseTime + 1}

KindPayloads ==
    ({CaptureState} \X {DiscussCode, TasksCode, LobbyCode})
    \cup ({CapturePlayer} \X {DiedA, ExiledA, ExiledB, DisconnectedA, JoinedA, Truncated})
    \cup ({CaptureConnection} \X {DiedA})

EventShapes ==
    {[EventType |-> kp[1], EventTime |-> t, Payload |-> kp[2]] :
        kp \in KindPayloads, t \in Times}

SeqsUpTo(S, n) == UNION {[1..m -> S] : m \in 0..n}

Ev(kind, time, payload) == [EventType |-> kind, EventTime |-> time, Payload |-> payload]

Game(start, end, win) == [StartTime |-> start, EndTime |-> end, WinType |-> win]

User(name, won) == [PlayerName |-> name, PlayerWon |-> won]

SampleEvents ==
    { <<>>,
      <<Ev(CapturePlayer, BaseTime, DiedA)>>,
      <<Ev(CaptureState, BaseTime, DiscussCode), Ev(CapturePlayer, BaseTime + 1, DiedA)>>,
      <<Ev(CapturePlayer, BaseTime, Truncated), Ev(CaptureState, BaseTime, LobbyCode)>> }

\* many event streams, one match
InitEvents ==
    /\ pgame = Game(BaseTime, BaseTime + 5, 1)
    /\ events \in SeqsUpTo(EventShapes, MaxEvents)
    /\ users = <<User("A", FALSE), User("B", TRUE)>>

\* no match record, every stream of up to two events
InitNilMatch ==
    /\ pgame = Nil
    /\ events \in SeqsUpTo(EventShapes, 2)
    /\ users = <<User("A", FALSE), User("B", TRUE)>>

\* many matches and outcome lists, few event streams
InitOutcomes ==
    /\ pgame \in {Nil} \cup {Game(s, e, w) : s \in {0, BaseTime},
                                             e \in {-1, BaseTime + 5},
                                             w \in -1 .. MaxWinCode}
    /\ events \in SampleEvents
    /\ users \in SeqsUpTo({User(n, w) : n \in Names, w \in BOOLEAN}, MaxUsers)

\* the state of a call before its first statement
Entered ==
    /\ stats = NewStats
    /\ exiledPlayerNames = <<>>
    /\ idx = 0
    /\ pc = "start"

\* no second call
NoPeer == [pc |-> "idle"]

\* no query was made
NoCall == [op |-> "none"]

NoQueries ==
    /\ games = {}
    /\ facts = {}
    /\ gameEvents = {}
    /\ call = NoCall
    /\ ret = <<>>

Init ==
    /\ InitEvents \/ InitNilMatch \/ InitOutcomes
    /\ Entered
    /\ peer = NoPeer
    /\ NoQueries

(***************************************************************************)
(* Steps of StatsFromGameAndEvents.                                        *)
(***************************************************************************)
\* lines 285-321: defaults, match fields, faction, outcome lists, length test
Begin ==
    /\ pc = "start"
    /\ LET s1 == WithGame(NewStats, pgame)
           s2 == [s1 EXCEPT !.WinRole = WinRoleOf(s1.WinType)]
       IN stats' = RangeUsers(s2, users, 1)
    /\ exiledPlayerNames' = <<>>
    /\ idx' = 1
    /\ pc' = IF TooShort(events) THEN "done" ELSE "scan"
    /\ UNCHANGED <<pgame, events, users>>
    /\ UNCHANGED otherVars

Scanning == pc = "scan" /\ idx <= Len(events)

\* the next loop iteration, or the return after the last one
Advance ==
    /\ idx' = idx + 1
    /\ pc' = "scan"

\* evaluating pgame.StartTime with pgame == nil
NilDeref ==
    /\ pc' = "panic"
    /\ idx' = idx

\* an entry is appended when the match is present; the reduction panics otherwise
AppendOrPanic(st, type, v, data) ==
    IF pgame = Nil
    THEN stats' = st /\ NilDeref
    ELSE stats' = AppendEvent(st, type, Offset(v, pgame), data) /\ Advance

ScanDiscuss ==
    /\ Scanning
    /\ events[idx].EventType = CaptureState
    /\ events[idx].Payload = DiscussCode
    /\ AppendOrPanic([stats EXCEPT !.NumMeetings = @ + 1], Discuss, events[idx], "")
    /\ UNCHANGED <<pgame, events, users, exiledPlayerNames>>
    /\ UNCHANGED otherVars

ScanTasks ==
    /\ Scanning
    /\ events[idx].EventType = CaptureState
    /\ events[idx].Payload # DiscussCode
    /\ events[idx].Payload = TasksCode
    /\ AppendOrPanic(stats, Tasks, events[idx], "")
    /\ UNCHANGED <<pgame, events, users, exiledPlayerNames>>
    /\ UNCHANGED otherVars

ScanOtherState ==
    /\ Scanning
    /\ events[idx].EventType = CaptureState
    /\ events[idx].Payload # DiscussCode
    /\ events[idx].Payload # TasksCode
    /\ Advance
    /\ UNCHANGED <<pgame, events, users, stats, exiledPlayerNames>>
    /\ UNCHANGED otherVars

IsPlayerEvent ==
    /\ Scanning
    /\ events[idx].EventType # CaptureState
    /\ events[idx].EventType = CapturePlayer

\* faulty variant: a payload that fails to parse ends the reduction
ScanParseErrorReturns ==
    /\ IsPlayerEvent
    /\ Unmarshal(events[idx].Payload).err
    /\ pc' = "done"
    /\ UNCHANGED <<pgame, events, users, stats, exiledPlayerNames, idx>>
    /\ UNCHANGED otherVars

\* err != nil: log.Println(err)
ScanParseError ==
    /\ IsPlayerEvent
    /\ Unmarshal(events[idx].Payload).err
    /\ Advance
    /\ UNCHANGED <<pgame, events, users, stats, exiledPlayerNames>>
    /\ UNCHANGED otherVars

\* faulty variant: a death is counted only when its entry is shown
ScanDiedCountsShown ==
    /\ IsPlayerEvent
    /\ LET player == Unmarshal(events[idx].Payload)
       IN /\ ~player.err
          /\ player.Action = DIED
          /\ IF IsExiled(exiledPlayerNames, player.Name)
             THEN stats' = stats /\ Advance
             ELSE AppendOrPanic(CountDeath(stats), PlayerDeath, events[idx], events[idx].Payload)
    /\ UNCHANGED <<pgame, events, users, exiledPlayerNames>>
    /\ UNCHANGED otherVars

ScanDied ==
    /\ IsPlayerEvent
    /\ LET player == Unmarshal(events[idx].Payload)
       IN /\ ~player.err
          /\ player.Action = DIED
          /\ IF IsExiled(exiledPlayerNames, player.Name)
             THEN stats' = CountDeath(stats) /\ Advance
             ELSE AppendOrPanic(CountDeath(stats), PlayerDeath, events[idx], events[idx].Payload)
    /\ UNCHANGED <<pgame, events, users, exiledPlayerNames>>
    /\ UNCHANGED otherVars

ScanExiled ==
    /\ IsPlayerEvent
    /\ LET player == Unmarshal(events[idx].Payload)
       IN /\ ~player.err
          /\ player.Action # DIED
          /\ player.Action = EXILED
          /\ exiledPlayerNames' = Append(exiledPlayerNames, player.Name)
          /\ AppendOrPanic([stats EXCEPT !.NumVotedOff = @ + 1], PlayerExiled,
                           events[idx], events[idx].Payload)
    /\ UNCHANGED <<pgame, events, users>>
    /\ UNCHANGED otherVars

ScanDisconnected ==
    /\ IsPlayerEvent
    /\ LET player == Unmarshal(events[idx].Payload)
       IN /\ ~player.err
          /\ player.Action # DIED
          /\ player.Action # EXILED
          /\ player.Action = DISCONNECTED
          /\ AppendOrPanic([stats EXCEPT !.NumDisconnects = @ + 1], PlayerDisconnect,
                           events[idx], events[idx].Payload)
    /\ UNCHANGED <<pgame, events, users, exiledPlayerNames>>
    /\ UNCHANGED otherVars

ScanOtherAction ==
    /\ IsPlayerEvent
    /\ LET player == Unmarshal(events[idx].Payload)
       IN /\ ~player.err
          /\ player.Action \notin {DIED, EXILED, DISCONNECTED}
    /\ Advance
    /\ UNCHANGED <<pgame, events, users, stats, exiledPlayerNames>>
    /\ UNCHANGED otherVars

ScanOtherKind ==
    /\ Scanning
    /\ events[idx].EventType # CaptureState
    /\ events[idx].EventType # CapturePlayer
    /\ Advance
    /\ UNCHANGED <<pgame, events, users, stats, exiledPlayerNames>>
    /\ UNCHANGED otherVars

\* return stats, after the loop
Return ==
    /\ pc = "scan"
    /\ idx > Len(events)
    /\ pc' = "done"
    /\ UNCHANGED <<pgame, events, users, stats, exiledPlayerNames, idx>>
    /\ UNCHANGED otherVars

(***************************************************************************)
(* A call of StatsFromGameAndEvents as a value: its arguments, its local   *)
(* variables and its position, and the statement it executes next.         *)
(***************************************************************************)
Start(g, evs, us) ==
    [pgame |-> g, events |-> evs, users |-> us, stats |-> NewStats,
     exiledPlayerNames |-> <<>>, idx |-> 0, pc |-> "start"]

\* lines 285-321
BeginOf(r) ==
    LET s1 == WithGame(NewStats, r.pgame)
        s2 == [s1 EXCEPT !.WinRole = WinRoleOf(s1.WinType)]
    IN [r EXCEPT !.stats = RangeUsers(s2, r.users, 1),
                 !.exiledPlayerNames = <<>>,
                 !.idx = 1,
                 !.pc = IF TooShort(r.events) THEN "done" ELSE "scan"]

\* the append of an entry, or the panic on a nil match
AppendOrPanicOf(r, st, type, v, data) ==
    IF r.pgame = Nil
    THEN [r EXCEPT !.stats = st, !.pc = "panic"]
    ELSE [r EXCEPT !.stats = AppendEvent(st, type, Offset(v, r.pgame), data),
                   !.idx = @ + 1]

\* one iteration of the loop over events, lines 322-378
ScanOf(r) ==
    LET v == r.events[r.idx]
        player == Unmarshal(v.Payload)
        skip == [r EXCEPT !.idx = @ + 1]
    IN IF v.EventType = CaptureState
       THEN IF v.Payload = DiscussCode
            THEN AppendOrPanicOf(r, [r.stats EXCEPT !.NumMeetings = @ + 1], Discuss, v, "")
            ELSE IF v.Payload = TasksCode
                 THEN AppendOrPanicOf(r, r.stats, Tasks, v, "")
                 ELSE skip
       ELSE IF v.EventType = CapturePlayer
            THEN IF player.err
                 THEN skip
                 ELSE IF player.Action = DIED
                      THEN IF IsExiled(r.exiledPlayerNames, player.Name)
                           THEN [skip EXCEPT !.stats = CountDeath(r.stats)]
                           ELSE AppendOrPanicOf(r, CountDeath(r.stats), PlayerDeath, v, v.Payload)
                      ELSE IF player.Action = EXILED
                           THEN AppendOrPanicOf(
                                    [r EXCEPT !.exiledPlayerNames = Append(@, player.Name)],
                                    [r.stats EXCEPT !.NumVotedOff = @ + 1],
                                    PlayerExiled, v, v.Payload)
                           ELSE IF player.Action = DISCONNECTED
                                THEN AppendOrPanicOf(r, [r.stats EXCEPT !.NumDisconnects = @ + 1],
                                                     PlayerDisconnect, v, v.Payload)
                                ELSE skip
            ELSE skip

Running(r) == r.pc \in {"start", "scan"}

StepOf(r) ==
    IF r.pc = "start" THEN BeginOf(r)
    ELSE IF r.pc = "scan" /\ r.idx > Len(r.events) THEN [r EXCEPT !.pc = "done"]
    ELSE IF r.pc = "scan" THEN ScanOf(r)
    ELSE r

RECURSIVE Run(_)
\* the call run from r to its return or its panic, with nothing else running
Run(r) == IF Running(r) THEN Run(StepOf(r)) ELSE r

\* faulty variant: the eliminated names are kept in one list shared by all calls
PeerStepSharedList ==
    /\ Running(peer)
    /\ LET next == StepOf([peer EXCEPT !.exiledPlayerNames = exiledPlayerNames])
       IN /\ peer' = next
          /\ exiledPlayerNames' = next.exiledPlayerNames
    /\ UNCHANGED <<pgame, events, users, stats, idx, pc>>
    /\ UNCHANGED rankVars

\* the second call executes its next statement
PeerStep ==
    /\ Running(peer)
    /\ peer' = StepOf(peer)
    /\ UNCHANGED reducerVars
    /\ UNCHANGED rankVars

Next ==
    \/ Begin
    \/ ScanDiscuss
    \/ ScanTasks
    \/ ScanOtherState
    \/ ScanParseError
    \/ ScanDied
    \/ ScanExiled
    \/ ScanDisconnected
    \/ ScanOtherAction
    \/ ScanOtherKind
    \/ Return

Spec == Init /\ [][Next]_vars

(***************************************************************************)
(* Two calls for different matches, their statements interleaved.          *)
(***************************************************************************)
PeerEvents ==
    { <<Ev(CapturePlayer, BaseTime + 1, DiedA), Ev(CaptureState, BaseTime + 2, TasksCode)>>,
      <<Ev(CapturePlayer, BaseTime + 1, ExiledA), Ev(CapturePlayer, BaseTime + 2, DiedA)>>,
      <<Ev(CaptureState, BaseTime + 1, DiscussCode), Ev(CapturePlayer, BaseTime + 2, ExiledB),
        Ev(CapturePlayer, BaseTime + 3, DiedA)>>,
      <<Ev(CapturePlayer, BaseTime + 1, DiedA)>> }

InitPair ==
    /\ pgame = Game(BaseTime, BaseTime + 5, 1)
    /\ events \in SeqsUpTo({e \in EventShapes : e.EventTime = BaseTime}, 2)
    /\ users = <<User("A", FALSE), User("B", TRUE)>>
    /\ Entered
    /\ \E g \in {Nil, Game(BaseTime + 1, BaseTime + 6, 3)}, evs \in PeerEvents :
          peer = Start(g, evs, <<User("A", TRUE)>>)
    /\ NoQueries

NextPair ==
    \/ Begin
    \/ ScanDiscuss
    \/ ScanTasks
    \/ ScanOtherState
    \/ ScanParseError
    \/ ScanDied
    \/ ScanExiled
    \/ ScanDisconnected
    \/ ScanOtherAction
    \/ ScanOtherKind
    \/ Return
    \/ PeerStep

SpecPair == InitPair /\ [][NextPair]_vars

TypeOK ==
    /\ pc \in {"start", "scan", "done", "panic"}
    /\ idx \in 0 .. (Len(events) + 1)
    /\ Len(stats.Events) <= Len(events)

(***************************************************************************)
(* The store and the calls of the ranking and count operations.            *)
(***************************************************************************)
\* bounds of the store and of the arguments
MaxFacts == 3
MaxGameEvents == 2
MaxMin == 2
MaxSize == 2

\* identifiers arrive as strings and are compared with bigint columns
Bigint(s) ==
    CASE s = "1" -> [err |-> FALSE, v |-> 1]
      [] s = "2" -> [err |-> FALSE, v |-> 2]
      [] s = "3" -> [err |-> FALSE, v |-> 3]
      [] OTHER -> [err |-> TRUE, v |-> 0]

UserIDs == {"1", "2", "3"}
GuildIDs == {"1", "2"}
Roles == {CrewmateRole, ImposterRole}
Actions == {"2", "6"}

UsersGames(gameID, userID, guildID, role, won) ==
    [game_id |-> gameID, user_id |-> userID, guild_id |-> guildID,
     player_role |-> role, player_won |-> won]

\* rows a users_games table is drawn from: users 1 and 2 crewmates of matches
\* 1 and 2 of guild 1 or imposters of match 1, user 3 a winning crewmate of
\* match 1
FactRows ==
    {UsersGames(g, u, 1, CrewmateRole, won) : g \in {1, 2}, u \in {1, 2}, won \in BOOLEAN}
    \cup {UsersGames(1, u, 1, ImposterRole, TRUE) : u \in {1, 2}}
    \cup {UsersGames(1, 3, 1, CrewmateRole, TRUE)}

\* a user has one row per match
OneRowPerUserAndGame(T) ==
    \A a, b \in T : a.game_id = b.game_id /\ a.user_id = b.user_id => a = b

RECURSIVE SubsetsUpTo(_, _)
SubsetsUpTo(S, n) ==
    IF n = 0 THEN {{}}
    ELSE LET smaller == SubsetsUpTo(S, n - 1)
         IN smaller \cup {T \cup {x} : T \in smaller, x \in S}

FactTables == {T \in SubsetsUpTo(FactRows, MaxFacts) : OneRowPerUserAndGame(T)}

GameEvent(gameID, userID, time, action) ==
    [game_id |-> gameID, user_id |-> userID, event_time |-> time, action |-> action]

\* rows a game_events table is drawn from: action 2 of users 1 and 2 in match
\* 1 at either time and of user 1 in match 2, action 6 of user 1 in match 1
GameEventRows ==
    {GameEvent(1, u, t, "2") : u \in {1, 2}, t \in Times}
    \cup {GameEvent(2, 1, BaseTime, "2"), GameEvent(1, 1, BaseTime, "6")}

\* the events of a match carry different times
DistinctTimes(E) ==
    \A a, b \in E : a.game_id = b.game_id /\ a.event_time = b.event_time => a = b

GameEventTables == {E \in SubsetsUpTo(GameEventRows, MaxGameEvents) : DistinctTimes(E)}

\* user 1 a crewmate in matches 1..n of guild 1, user 2 the imposter
CrewmateHistory(n) ==
    {UsersGames(g, 1, 1, CrewmateRole, FALSE) : g \in 1..n}
    \cup {UsersGames(g, 2, 1, ImposterRole, TRUE) : g \in 1..n}

\* no reduction is running
NoReduction ==
    /\ pgame = Nil
    /\ events = <<>>
    /\ users = <<>>
    /\ stats = NewStats
    /\ exiledPlayerNames = <<>>
    /\ idx = 0
    /\ pc = "idle"
    /\ peer = NoPeer

\* users 1 and 2 crewmates of matches 1 and 2 (user 1 winning the first only),
\* user 3 with them in match 1
SharedHistory ==
    {UsersGames(1, 1, 1, CrewmateRole, TRUE), UsersGames(2, 1, 1, CrewmateRole, FALSE),
     UsersGames(1, 2, 1, CrewmateRole, TRUE), UsersGames(2, 2, 1, CrewmateRole, FALSE),
     UsersGames(1, 3, 1, CrewmateRole, TRUE)}

\* end_time of a match that has not ended: ... AND end_time != -1
StillRunning == -1

Games(gameID, guildID, endTime) ==
    [game_id |-> gameID, guild_id |-> guildID, end_time |-> endTime]

\* the games rows the users_games and game_events rows refer to, all ended;
\* the matches of the game_events rows are matches of guild 1
GamesOf(F, E) ==
    {Games(f.game_id, f.guild_id, BaseTime + 5) : f \in F}
    \cup {Games(e.game_id, 1, BaseTime + 5) : e \in E}

\* users 1 and 2 crewmates of match 1 of guild 1 and of match 3 of guild 2
TwoGuilds ==
    {UsersGames(1, 1, 1, CrewmateRole, TRUE), UsersGames(1, 2, 1, CrewmateRole, TRUE),
     UsersGames(3, 1, 2, CrewmateRole, FALSE), UsersGames(3, 2, 2, CrewmateRole, FALSE)}

\* the teammate tables
InitTeammates ==
    /\ facts \in FactTables
    /\ gameEvents = {}
    /\ games = GamesOf(facts, gameEvents)

\* the longer histories, with match 4 of guild 1 still running
InitSharedHistory ==
    /\ facts \in {SharedHistory, TwoGuilds}
    /\ gameEvents = {}
    /\ games = GamesOf(facts, gameEvents) \cup {Games(4, 1, StillRunning)}

\* the first-target tables: a history of one match, and of more than FixedMinTotal
InitFirstTargets ==
    /\ facts \in {CrewmateHistory(1), CrewmateHistory(FixedMinTotal + 1)}
    /\ gameEvents \in GameEventTables
    /\ games = GamesOf(facts, gameEvents)

InitRank ==
    /\ NoReduction
    /\ InitTeammates \/ InitSharedHistory \/ InitFirstTargets
    /\ call = NoCall
    /\ ret = <<>>

DeleteOps == {"DeleteAllGamesForServer", "DeleteAllGamesForUser"}

\* the operation is the first on the store, or follows a delete, or is
\* called again as before
Asked(op, args) ==
    \/ call = NoCall
    \/ call.op \in DeleteOps
    \/ call.op = op /\ call.args = args

\* pgxscan.Select(ctx, pool, &r, ...) followed by log.Println(err) and return
\* r: a failure leaves in r the rows scanned before it
Select(op, args, full, scanned, err) ==
    /\ ~err => scanned = Len(full)
    /\ call' = [op |-> op, args |-> args, err |-> err]
    /\ ret' = SubSeq(full, 1, scanned)

\* pgxscan.Get(ctx, pool, &r, ...); if err != nil { return -1 }; return r
Get(op, args, count, err) ==
    /\ call' = [op |-> op, args |-> args, err |-> err]
    /\ ret' = IF err THEN -1 ELSE count

\* the store answers, or fails before or while the rows are scanned
SelectOrdered(op, args, result, before) ==
    \E full \in Orderings(result, before), err \in BOOLEAN :
        \E scanned \in 0..Len(full) : Select(op, args, full, scanned, err)

\* the queries only read the store
StoreUnchanged == UNCHANGED <<reducerVars, peer, games, facts, gameEvents>>

BestTeammateByRole ==
    \E userID \in UserIDs, guildID \in GuildIDs, role \in Roles, leaderboardMin \in 1..MaxMin :
        LET args == [userID |-> userID, guildID |-> guildID, role |-> role,
                     leaderboardMin |-> leaderboardMin]
            joined == {j \in TeammateJoin(Bigint(guildID).v, role) :
                          j[1].user_id = Bigint(userID).v}
        IN /\ Asked("BestTeammateByRole", args)
           /\ SelectOrdered("BestTeammateByRole", args,
                            TeammateRows(joined, TRUE, leaderboardMin, FALSE),
                            TeammateOrder(TeammateRows(joined, TRUE, leaderboardMin, FALSE)))
           /\ StoreUnchanged

WorstTeammateByRole ==
    \E userID \in UserIDs, guildID \in GuildIDs, role \in Roles, leaderboardMin \in 1..MaxMin :
        LET args == [userID |-> userID, guildID |-> guildID, role |-> role,
                     leaderboardMin |-> leaderboardMin]
            joined == {j \in TeammateJoin(Bigint(guildID).v, role) :
                          j[1].user_id = Bigint(userID).v}
        IN /\ Asked("WorstTeammateByRole", args)
           /\ SelectOrdered("WorstTeammateByRole", args,
                            TeammateRows(joined, FALSE, leaderboardMin, FALSE),
                            TeammateOrder(TeammateRows(joined, FALSE, leaderboardMin, FALSE)))
           /\ StoreUnchanged

BestTeammateForServerByRole ==
    \E guildID \in GuildIDs, role \in Roles, leaderboardMin \in 1..MaxMin :
        LET args == [guildID |-> guildID, role |-> role, leaderboardMin |-> leaderboardMin]
            joined == TeammateJoin(Bigint(guildID).v, role)
        IN /\ Asked("BestTeammateForServerByRole", args)
           /\ SelectOrdered("BestTeammateForServerByRole", args,
                            TeammateRows(joined, TRUE, leaderboardMin, TRUE),
                            TeammateOrder(TeammateRows(joined, TRUE, leaderboardMin, TRUE)))
           /\ StoreUnchanged

WorstTeammateForServerByRole ==
    \E guildID \in GuildIDs, role \in Roles, leaderboardMin \in 1..MaxMin :
        LET args == [guildID |-> guildID, role |-> role, leaderboardMin |-> leaderboardMin]
            joined == TeammateJoin(Bigint(guildID).v, role)
        IN /\ Asked("WorstTeammateForServerByRole", args)
           /\ SelectOrdered("WorstTeammateForServerByRole", args,
                            TeammateRows(joined, FALSE, leaderboardMin, TRUE),
                            TeammateOrder(TeammateRows(joined, FALSE, leaderboardMin, TRUE)))
           /\ StoreUnchanged

\* a query with LIMIT; a division by zero fails the query before any row,
\* unless the limit is 0: the store then returns no row without computing any
SelectLimited(op, args, result, before, size, divisionByZero) ==
    \E full \in Orderings(result, before), err \in BOOLEAN :
        \E scanned \in 0..Len(Limit(full, size)) :
            /\ divisionByZero /\ size > 0 => err /\ scanned = 0
            /\ Select(op, args, Limit(full, size), scanned, err)

UserFrequentFirstTarget ==
    \E userID \in UserIDs, guildID \in GuildIDs, action \in Actions, leaderboardSize \in 0..MaxSize :
        LET args == [userID |-> userID, guildID |-> guildID, action |-> action,
                     leaderboardSize |-> leaderboardSize]
            matches == {f \in FirstTargetMatches(Bigint(guildID).v, action) :
                           f.user_id = Bigint(userID).v}
            result == FirstTargetRows(matches, Bigint(guildID).v)
        IN /\ Asked("UserFrequentFirstTarget", args)
           /\ SelectLimited("UserFrequentFirstTarget", args, result, TotalDeathOrder(result),
                            leaderboardSize, \E r \in result : r.total = 0)
           /\ StoreUnchanged

\* ... AND total > 3
FirstTargetForServerMatches(guildID, action) ==
    {f \in FirstTargetMatches(guildID, action) : TotalGame(f.user_id, guildID) > FixedMinTotal}

UserMostFrequentFirstTargetForServer ==
    \E guildID \in GuildIDs, action \in Actions, leaderboardSize \in 0..MaxSize :
        LET args == [guildID |-> guildID, action |-> action, leaderboardSize |-> leaderboardSize]
            result == FirstTargetRows(FirstTargetForServerMatches(Bigint(guildID).v, action),
                                      Bigint(guildID).v)
        IN /\ Asked("UserMostFrequentFirstTargetForServer", args)
           /\ SelectLimited("UserMostFrequentFirstTargetForServer", args, result,
                            DeathRateOrder(result), leaderboardSize, FALSE)
           /\ StoreUnchanged

\* SELECT COUNT(*) FROM users_games WHERE user_id=$1; an identifier that is
\* not a number fails the query
NumGamesPlayedByUser ==
    \E userID \in UserIDs \cup {"x"}, err \in BOOLEAN :
        LET args == [userID |-> userID]
        IN /\ Asked("NumGamesPlayedByUser", args)
           /\ Bigint(userID).err => err
           /\ Get("NumGamesPlayedByUser", args,
                  Cardinality({f \in facts : f.user_id = Bigint(userID).v}), err)
           /\ StoreUnchanged

\* SELECT COUNT(*) FROM users_games WHERE user_id=$1 AND player_won=true;
NumWins ==
    \E userID \in UserIDs \cup {"x"}, err \in BOOLEAN :
        LET args == [userID |-> userID]
        IN /\ Asked("NumWins", args)
           /\ Bigint(userID).err => err
           /\ Get("NumWins", args,
                  Cardinality({f \in facts : f.user_id = Bigint(userID).v /\ f.player_won}), err)
           /\ StoreUnchanged

\* gid, _ := strconv.ParseInt(guildID, 10, 64): gid is 0 when guildID is not
\* a number; SELECT COUNT(*) FROM games WHERE guild_id=$1 AND end_time != -1;
NumGamesPlayedOnGuild ==
    \E guildID \in GuildIDs \cup {"x"}, err \in BOOLEAN :
        LET args == [guildID |-> guildID]
            gid == Bigint(guildID).v
        IN /\ Asked("NumGamesPlayedOnGuild", args)
           /\ Get("NumGamesPlayedOnGuild", args,
                  Cardinality({g \in games : g.guild_id = gid /\ g.end_time # StillRunning}),
                  err)
           /\ StoreUnchanged

\* _, err := Pool.Exec(ctx, ...); return err
Exec(op, args, err) ==
    /\ call' = [op |-> op, args |-> args, err |-> err]
    /\ ret' = IF err THEN "err" ELSE "nil"

\* DELETE FROM games WHERE guild_id=$1: the games of the guild go, and with
\* them the users_games and game_events rows of these games when the schema
\* makes the delete cascade; a store that refuses the delete fails it
DeleteAllGamesForServer ==
    \E guildID \in GuildIDs, err \in BOOLEAN, cascade \in BOOLEAN :
        LET args == [guildID |-> guildID]
            deleted == {g \in games : g.guild_id = Bigint(guildID).v}
            gone == IF cascade THEN {g.game_id : g \in deleted} ELSE {}
        IN /\ err => ~cascade
           /\ Exec("DeleteAllGamesForServer", args, err)
           /\ games' = IF err THEN games ELSE games \ deleted
           /\ facts' = {f \in facts : f.game_id \notin gone}
           /\ gameEvents' = {e \in gameEvents : e.game_id \notin gone}
           /\ UNCHANGED <<reducerVars, peer>>

\* DELETE FROM users_games WHERE user_id=$1; an identifier that is not a
\* number fails the delete
DeleteAllGamesForUser ==
    \E userID \in UserIDs \cup {"x"}, err \in BOOLEAN :
        LET args == [userID |-> userID]
        IN /\ Bigint(userID).err => err
           /\ Exec("DeleteAllGamesForUser", args, err)
           /\ facts' = IF err THEN facts
                       ELSE {f \in facts : f.user_id # Bigint(userID).v}
           /\ UNCHANGED <<reducerVars, peer, games, gameEvents>>

NextRank ==
    \/ DeleteAllGamesForServer
    \/ DeleteAllGamesForUser
    \/ NumGamesPlayedOnGuild
    \/ BestTeammateByRole
    \/ WorstTeammateByRole
    \/ BestTeammateForServerByRole
    \/ WorstTeammateForServerByRole
    \/ UserFrequentFirstTarget
    \/ UserMostFrequentFirstTargetForServer
    \/ NumGamesPlayedByUser
    \/ NumWins

SpecRank == InitRank /\ [][NextRank]_vars

(***************************************************************************)
(* Properties of the reducer.                                              *)
(***************************************************************************)
Returned == pc = "done"
Started == pc # "start"

\* event j is a player action that parses and carries the given action
IsAction(j, action) ==
    /\ events[j].EventType = CapturePlayer
    /\ ~Unmarshal(events[j].Payload).err
    /\ Unmarshal(events[j].Payload).Action = action

NameOf(j) == Unmarshal(events[j].Payload).Name

\* an Exiled action for the name was processed before event j
ExiledEarlier(name, j) ==
    \E k \in 1..(j - 1) : IsAction(k, EXILED) /\ NameOf(k) = name

\* the step appends exactly one entry of the given kind to the timeline
Appends(type) ==
    /\ Len(stats'.Events) = Len(stats.Events) + 1
    /\ SubSeq(stats'.Events, 1, Len(stats.Events)) = stats.Events
    /\ stats'.Events[Len(stats'.Events)].EventType = type

CountEntries(type) ==
    Cardinality({k \in 1..Len(stats.Events) : stats.Events[k].EventType = type})

\* C1: within a reduction over 2 or more events, processing a parsed Died
\* action for name N appends a PlayerDeath entry if and only if no Exiled
\* action for N was processed earlier in the scan.
C1_DiedShownIffNotExiled ==
    [][(Scanning /\ IsAction(idx, DIED))
         => (Appends(PlayerDeath) <=> ~ExiledEarlier(NameOf(idx), idx))]_vars

\* The same statement for the reductions that are given a match record.
DiedShownIffNotExiledWithMatch ==
    [][(Scanning /\ IsAction(idx, DIED) /\ pgame # Nil)
         => (Appends(PlayerDeath) <=> ~ExiledEarlier(NameOf(idx), idx))]_vars

DiedCount == Cardinality({j \in 1..Len(events) : IsAction(j, DIED)})

\* C2 as stated: for every event sequence the death counter of the result is
\* the number of player actions that parse as Died.
C2_DeathsCountAllDied == Returned => stats.NumDeaths = DiedCount

\* C2: for a sequence of 2 or more events the death counter of the result is
\* the number of player actions that parse as Died, whether or not their
\* timeline entry was suppressed; for fewer than 2 events it is 0.
C2_DeathsCountWhenScanned ==
    Returned => stats.NumDeaths = (IF Len(events) < 2 THEN 0 ELSE DiedCount)

\* a result in which a counted death has no timeline entry
C2_SuppressedDeathCounted ==
    /\ Returned
    /\ \E j \in 1..Len(events) : IsAction(j, DIED) /\ ExiledEarlier(NameOf(j), j)
    /\ stats.NumDeaths = DiedCount
    /\ CountEntries(PlayerDeath) < stats.NumDeaths

\* the names of the outcome records with the given win flag, in input order
NamesWhere(won) ==
    LET sel == SelectSeq(users, LAMBDA u : u.PlayerWon = won)
    IN [k \in 1..Len(sel) |-> sel[k].PlayerName]

SeqRange(s) == {s[k] : k \in 1..Len(s)}

PartitionExact ==
    /\ stats.WinPlayerNames = NamesWhere(TRUE)
    /\ stats.LosePlayerNames = NamesWhere(FALSE)
    /\ Len(stats.WinPlayerNames) + Len(stats.LosePlayerNames) = Len(users)

\* C3: with no match record the reducer returns, for every event sequence and
\* outcome list, zero timestamps and duration, win type Unknown and the
\* winner and loser lists; it never panics.
C3_NilMatchIsTotal ==
    pgame = Nil =>
        /\ pc # "panic"
        /\ Returned =>
             /\ stats.GameStartTime = ZeroTime
             /\ stats.GameEndTime = ZeroTime
             /\ stats.GameDuration = 0
             /\ stats.WinType = Unknown
             /\ PartitionExact

\* C4: with 0 or 1 events the returned timeline is empty whatever the event
\* holds, and the outcome lists and the match fields are still filled in.
C4_ShortStreamEmptyTimeline ==
    (Returned /\ Len(events) < 2) =>
        /\ stats.Events = <<>>
        /\ PartitionExact
        /\ pgame # Nil =>
             /\ stats.GameStartTime = TimeUnix(pgame.StartTime)
             /\ stats.GameEndTime = TimeUnix(pgame.EndTime)
             /\ stats.GameDuration = pgame.EndTime - pgame.StartTime
             /\ stats.WinType = pgame.WinType

\* a single Died action was reduced for a present match with outcome records
C4_SingleDiedReturned ==
    /\ Returned
    /\ Len(events) = 1
    /\ IsAction(1, DIED)
    /\ pgame # Nil
    /\ stats.WinPlayerNames # <<>>
    /\ stats.Events = <<>>

NoSharedName == SeqRange(stats.WinPlayerNames) \cap SeqRange(stats.LosePlayerNames) = {}

\* C5 as stated: the lists partition the outcome records in input order and
\* no name is in both lists.
C5_PartitionAndDisjoint == Started => (PartitionExact /\ NoSharedName)

\* C5: the lists partition the outcome records in input order, and a name is
\* in both lists only when the input holds it in a winning and in a losing
\* record.
C5_PartitionByRecord ==
    Started =>
        /\ PartitionExact
        /\ \A n \in SeqRange(stats.WinPlayerNames) \cap SeqRange(stats.LosePlayerNames) :
             \E a, b \in 1..Len(users) :
                /\ users[a].PlayerName = n /\ users[a].PlayerWon
                /\ users[b].PlayerName = n /\ ~users[b].PlayerWon

\* a result whose outcome records hold one name as a winner and as a loser
C5_SameNameBothFlags ==
    /\ Returned
    /\ stats.WinPlayerNames # <<>>
    /\ stats.LosePlayerNames # <<>>
    /\ ~NoSharedName

KnownCodes == 0..6

\* C6: for win codes 0, 1 and 6 the reducer reports the Crewmate faction and
\* for 2, 3, 4 and 5 the Imposter faction, and these are the codes that
\* NumGamesWonAsRoleOnServer counts as wins of the same faction.
C6_FactionOfCode ==
    (Started /\ pgame # Nil /\ pgame.WinType \in KnownCodes) =>
        /\ stats.WinRole \in {CrewmateRole, ImposterRole}
        /\ pgame.WinType \in {0, 1, 6} => stats.WinRole = CrewmateRole
        /\ pgame.WinType \in {2, 3, 4, 5} => stats.WinRole = ImposterRole
        /\ WonAsRoleFilter(stats.WinRole, pgame.WinType)
        /\ \A role \in {CrewmateRole, ImposterRole} :
             WonAsRoleFilter(role, pgame.WinType) => role = stats.WinRole

\* a match won by a kill was reduced
C6_KillWinReduced ==
    /\ Returned
    /\ pgame # Nil
    /\ pgame.WinType = 3
    /\ stats.WinRole = ImposterRole

\* C7: for a win code outside 0..6 the win type of the result is Unknown and
\* the winning faction is Crewmate.
C7_OutOfRangeIsUnknown ==
    (Returned /\ pgame # Nil /\ pgame.WinType \notin KnownCodes) =>
        /\ stats.WinType = Unknown
        /\ stats.WinRole = CrewmateRole

IsPlayerEntry(e) == e.EventType \in {PlayerDeath, PlayerDisconnect, PlayerExiled}
IsPhaseEntry(e) == e.EventType \in {Tasks, Discuss}

\* entry e is what event v yields: the offset from the match start, and the
\* payload for a player action or the empty string for a phase state
EntryOf(e, v) ==
    /\ e.EventTimeOffset = v.EventTime - pgame.StartTime
    /\ v.EventType = CapturePlayer => (IsPlayerEntry(e) /\ e.Data = v.Payload)
    /\ v.EventType = CaptureState => (IsPhaseEntry(e) /\ e.Data = "")
    /\ v.EventType \in {CapturePlayer, CaptureState}

\* the step leaves the timeline alone or appends one entry to it
GrowsByAtMostOne ==
    \/ stats'.Events = stats.Events
    \/ /\ Len(stats'.Events) = Len(stats.Events) + 1
       /\ SubSeq(stats'.Events, 1, Len(stats.Events)) = stats.Events

\* C8: every entry appended to the timeline carries the offset of the event
\* that produced it from the match start, in seconds; a player-action entry
\* carries the event's payload and a phase-state entry the empty string.
C8_EntryCarriesOffsetAndPayload ==
    [][Len(stats'.Events) > Len(stats.Events)
         => /\ Scanning
            /\ Len(stats'.Events) = Len(stats.Events) + 1
            /\ EntryOf(stats'.Events[Len(stats'.Events)], events[idx])]_vars

\* a result with a phase entry and a player entry at different, non-zero offsets
C8_BothKindsOfEntry ==
    /\ Returned
    /\ \E a, b \in 1..Len(stats.Events) :
         /\ IsPhaseEntry(stats.Events[a])
         /\ IsPlayerEntry(stats.Events[b])
         /\ stats.Events[b].Data # ""
         /\ stats.Events[a].EventTimeOffset # stats.Events[b].EventTimeOffset
         /\ stats.Events[a].EventTimeOffset + stats.Events[b].EventTimeOffset > 0

Ascending == \A a, b \in 1..Len(events) : a < b => events[a].EventTime <= events[b].EventTime

NonDecreasingOffsets ==
    \A a, b \in 1..Len(stats.Events) :
        a < b => stats.Events[a].EventTimeOffset <= stats.Events[b].EventTimeOffset

\* C9: the timeline is an order-preserving subsequence of the events: each
\* step of the scan moves to the next event and appends at most one entry,
\* which is that event's, behind the entries of the earlier events; so the
\* offsets are non-decreasing when the events are in ascending time order.
C9_TimelineFollowsScanOrder ==
    /\ [](Ascending => NonDecreasingOffsets)
    /\ [](Len(stats.Events) <= Len(events))
    /\ [][/\ GrowsByAtMostOne
          /\ stats'.Events # stats.Events
               => /\ Scanning
                  /\ idx' = idx + 1
                  /\ Len(stats.Events) < idx
                  /\ EntryOf(stats'.Events[Len(stats'.Events)], events[idx])]_vars

\* a result over strictly ascending events with entries at increasing offsets
C9_AscendingTimeline ==
    /\ Returned
    /\ Len(events) >= 2
    /\ \A a, b \in 1..Len(events) : a < b => events[a].EventTime < events[b].EventTime
    /\ Len(stats.Events) >= 2
    /\ stats.Events[1].EventTimeOffset < stats.Events[2].EventTimeOffset

\* event idx is a player action whose payload fails to parse
ParseFails ==
    /\ Scanning
    /\ events[idx].EventType = CapturePlayer
    /\ Unmarshal(events[idx].Payload).err

\* C10: a player action whose payload fails to parse changes no counter, not
\* the eliminated set and not the timeline, and the scan goes on with the
\* next event: a reduction that returns has scanned every event.
C10_ParseFailureSkipsEvent ==
    /\ [][ParseFails => /\ stats' = stats
                        /\ exiledPlayerNames' = exiledPlayerNames
                        /\ pc' = "scan"
                        /\ idx' = idx + 1]_vars
    /\ []((Returned /\ Len(events) >= 2) => idx = Len(events) + 1)

\* a result in which an event behind an unparsable payload was processed
C10_EventAfterParseFailure ==
    /\ Returned
    /\ \E j \in 1..Len(events) :
         /\ events[j].EventType = CapturePlayer
         /\ Unmarshal(events[j].Payload).err
         /\ \E k \in (j + 1)..Len(events) : IsAction(k, EXILED)
    /\ stats.NumVotedOff >= 1
    /\ CountEntries(PlayerExiled) >= 1

Counters(st) == <<st.NumMeetings, st.NumDeaths, st.NumVotedOff, st.NumDisconnects>>

CountersMatchEntries ==
    /\ stats.NumMeetings = CountEntries(Discuss)
    /\ stats.NumVotedOff = CountEntries(PlayerExiled)
    /\ stats.NumDisconnects = CountEntries(PlayerDisconnect)

\* event idx is a phase-state event with the tasks code
IsTasksEvent ==
    /\ Scanning
    /\ events[idx].EventType = CaptureState
    /\ events[idx].Payload = TasksCode

\* event idx is one the scan has no case for: another phase code, another
\* action value or another event kind
IsIgnoredEvent ==
    /\ Scanning
    /\ \/ /\ events[idx].EventType = CaptureState
          /\ events[idx].Payload \notin {DiscussCode, TasksCode}
       \/ /\ events[idx].EventType = CapturePlayer
          /\ ~Unmarshal(events[idx].Payload).err
          /\ Unmarshal(events[idx].Payload).Action \notin {DIED, EXILED, DISCONNECTED}
       \/ events[idx].EventType \notin {CaptureState, CapturePlayer}

\* C15: in a result the meeting, voted-off and disconnect counters equal the
\* numbers of Discuss, PlayerExiled and PlayerDisconnect entries; a tasks code
\* appends a Tasks entry and changes no counter; an event of any other phase
\* code, action value or kind changes no counter and not the timeline.
C15_CountersAndEntries ==
    /\ [](Returned => CountersMatchEntries)
    /\ [][IsTasksEvent => (Appends(Tasks) /\ Counters(stats') = Counters(stats))]_vars
    /\ [][IsIgnoredEvent => stats' = stats]_vars

\* The same statement for the reductions that are given a match record.
CountersAndEntriesWithMatch ==
    /\ [](pc # "panic" => CountersMatchEntries)
    /\ [][(IsTasksEvent /\ pgame # Nil)
            => (Appends(Tasks) /\ Counters(stats') = Counters(stats))]_vars
    /\ [][IsIgnoredEvent => stats' = stats]_vars

\* C18: in every result the voted-off counter is at most the death counter,
\* so the killed figure of the embed is not negative.
C18_VotedOffAtMostDeaths ==
    Returned => (stats.NumVotedOff <= stats.NumDeaths /\ Killed(stats) >= 0)

\* this call as a value
Self ==
    [pgame |-> pgame, events |-> events, users |-> users, stats |-> stats,
     exiledPlayerNames |-> exiledPlayerNames, idx |-> idx, pc |-> pc]

\* Each action of the call is the statement StepOf executes.
ActionsAreStepOf == [][Self' # Self => Self' = StepOf(Self)]_vars

InputsOf(r) == <<r.pgame, r.events, r.users>>

\* C16: two reductions of different matches whose steps are interleaved each
\* end as they end when run alone, an Exiled in one never suppressing a
\* PlayerDeath in the other, and neither changes its match, events or outcomes.
C16_InterleavedAsAlone ==
    /\ [](~Running(Self) => Self = Run(Start(pgame, events, users)))
    /\ [](~Running(peer) => peer = Run(Start(peer.pgame, peer.events, peer.users)))
    /\ [][InputsOf(Self') = InputsOf(Self) /\ InputsOf(peer') = InputsOf(peer)]_vars

\* both calls returned; one exiled A, the other shows the death of A
C16_ExiledHereDeathShownThere ==
    /\ Returned
    /\ peer.pc = "done"
    /\ IsExiled(exiledPlayerNames, "A")
    /\ ~IsExiled(peer.exiledPlayerNames, "A")
    /\ \E k \in 1..Len(peer.stats.Events) :
         /\ peer.stats.Events[k].EventType = PlayerDeath
         /\ peer.stats.Events[k].Data = DiedA


(***************************************************************************)
(* Properties of the ranking and count operations.                         *)
(***************************************************************************)
TeammateOps == {"BestTeammateByRole", "WorstTeammateByRole",
                "BestTeammateForServerByRole", "WorstTeammateForServerByRole"}

ForServerOps == {"BestTeammateForServerByRole", "WorstTeammateForServerByRole"}

FirstTargetOps == {"UserFrequentFirstTarget", "UserMostFrequentFirstTargetForServer"}

RankingOps == TeammateOps \cup FirstTargetOps

CountOps == {"NumGamesPlayedOnGuild", "NumGamesPlayedByUser", "NumWins"}

Called(ops) == call # NoCall /\ call.op \in ops

Ids == {f.user_id : f \in facts}

\* the matches of the guild both users played in the role
SharedMatches(u, v, guildID, role) ==
    {g \in {f.game_id : f \in facts} :
        \E a, b \in facts :
            /\ a.game_id = g /\ a.user_id = u /\ a.guild_id = guildID /\ a.player_role = role
            /\ b.game_id = g /\ b.user_id = v /\ b.player_role = role}

\* the pairs the called teammate ranking ranges over: the user with every
\* other user, or every two users with the greater identifier first
PairsAsked ==
    IF call.op \in ForServerOps
    THEN {p \in Ids \X Ids : p[1] > p[2]}
    ELSE {p \in Ids \X Ids : p[1] = Bigint(call.args.userID).v /\ p[2] # p[1]}

SharedCount(p) ==
    Cardinality(SharedMatches(p[1], p[2], Bigint(call.args.guildID).v, call.args.role))

PairOf(row) == <<row.user_id, row.teammate_id>>

\* C11: a teammate ranking never returns a pair that shares fewer matches than
\* leaderboardMin, the total of a returned row is the number of matches the
\* pair shares, and a ranking the store answered holds every pair that shares
\* a match and at least leaderboardMin of them
C11_MinimumSampleKept ==
    Called(TeammateOps) =>
        /\ \A i \in 1..Len(ret) :
              /\ ret[i].total >= call.args.leaderboardMin
              /\ ret[i].total = SharedCount(PairOf(ret[i]))
        /\ ~call.err =>
              {PairOf(ret[i]) : i \in 1..Len(ret)} =
                  {p \in PairsAsked :
                      SharedCount(p) >= 1 /\ SharedCount(p) >= call.args.leaderboardMin}

\* a ranking with leaderboardMin 2 holds a pair and leaves out a pair that
\* shares one match
C11_ThinPairLeftOut ==
    /\ Called(TeammateOps)
    /\ ~call.err
    /\ call.args.leaderboardMin = 2
    /\ Len(ret) >= 1
    /\ \E p \in PairsAsked : SharedCount(p) = 1

\* C12: a community-wide teammate ranking reports each two users once: no two
\* rows of the result are about the same two users, in either order
C12_PairReportedOnce ==
    Called(ForServerOps) =>
        \A i, k \in 1..Len(ret) :
            {ret[i].user_id, ret[i].teammate_id} = {ret[k].user_id, ret[k].teammate_id}
                => i = k

\* the rows are in the order of the three keys: no row is followed by a row
\* with a greater rate, or the same rate and a greater count, or the same rate
\* and count and a greater total
OrderedByThreeKeys ==
    \A i, k \in 1..Len(ret) :
        i < k =>
            /\ ~RateGreater(ret[k].rate, ret[i].rate)
            /\ RateEqual(ret[k].rate, ret[i].rate) => ret[k].count <= ret[i].count
            /\ RateEqual(ret[k].rate, ret[i].rate) /\ ret[k].count = ret[i].count
                  => ret[k].total <= ret[i].total

\* the teammate ranking is answered again for the same arguments and table
AnsweredAgain ==
    /\ Called(TeammateOps)
    /\ ~call.err
    /\ call'.op = call.op
    /\ call'.args = call.args
    /\ ~call'.err
    /\ facts' = facts

\* C13: the rows of a teammate ranking are ordered by rate, then count, then
\* total, each descending, and the order is deterministic: the same call on
\* the same table returns the same sequence of rows
C13_DeterministicOrder ==
    /\ [](Called(TeammateOps) => OrderedByThreeKeys)
    /\ [][AnsweredAgain => ret' = ret]_vars

\* C14: when the store fails to execute or to scan the query, a count
\* operation returns -1 and a ranking operation returns no rows
C14_FailureGivesSentinel ==
    Called(CountOps \cup RankingOps) /\ call.err =>
        IF call.op \in CountOps THEN ret = -1 ELSE ret = <<>>

\* a count operation returns -1 exactly when the store failed
CountFailureGivesSentinel ==
    Called(CountOps) => (ret = -1 <=> call.err)

\* the users the called first-target ranking ranges over: those of the guild
\* who were the first target of the action in a match they played (the one
\* user asked for, or all)
FirstTargetsAsked ==
    {u \in Ids :
        /\ call.op = "UserFrequentFirstTarget" => u = Bigint(call.args.userID).v
        /\ \E f \in facts :
              /\ f.user_id = u
              /\ f.guild_id = Bigint(call.args.guildID).v
              /\ u \in FirstTarget(f.game_id, call.args.action)}

\* C17: a ranking leaves a row out only by the caller's leaderboardMin or
\* leaderboardSize: an answered teammate ranking holds every pair that shares
\* a match unless the pair shares fewer than leaderboardMin, and an answered
\* first-target ranking holds every first target unless it is already
\* leaderboardSize rows long
C17_OnlyCallerThresholds ==
    /\ Called(TeammateOps) /\ ~call.err =>
          \A p \in PairsAsked :
              SharedCount(p) >= 1 /\ SharedCount(p) >= call.args.leaderboardMin
                  => \E i \in 1..Len(ret) : PairOf(ret[i]) = p
    /\ Called(FirstTargetOps) /\ ~call.err =>
          \A u \in FirstTargetsAsked :
              \/ \E i \in 1..Len(ret) : ret[i].user_id = u
              \/ Len(ret) = call.args.leaderboardSize

\* the same with the user's total above the fixed threshold
OnlyCallerThresholdsAboveFixed ==
    Called(FirstTargetOps) /\ ~call.err =>
        \A u \in FirstTargetsAsked :
            \/ \E i \in 1..Len(ret) : ret[i].user_id = u
            \/ Len(ret) = call.args.leaderboardSize
            \/ /\ call.op = "UserMostFrequentFirstTargetForServer"
               /\ TotalGame(u, Bigint(call.args.guildID).v) <= FixedMinTotal

\* the community-wide first-target ranking returns a row
FirstTargetForServerRanked ==
    /\ Called({"UserMostFrequentFirstTargetForServer"})
    /\ ~call.err
    /\ Len(ret) >= 1

====
